---- MODULE Spec2Model ----
(***************************************************************************)
(* A model of main.py: the hourly scheduling loop loop_crypto, the per     *)
(* asset analysis analyze_coin, and the price source get_coinbase_price.   *)
(*                                                                         *)
(* Times are whole seconds.  The clock is the local time of day            *)
(* (0 .. DAY-1); prices are integers (a price unit is what the provider    *)
(* quotes), so the percentage comparisons below are exact.                 *)
(***************************************************************************)
EXTENDS Integers, Sequences, FiniteSets, TLC

VARIABLES
    pc,            \* position of loop_crypto
    clock,         \* local time of day, seconds since midnight
    now,           \* loop_crypto's `now`, read at the top of the cycle
    i,             \* number of coins of the for loop taken so far
    started,       \* coins analyze_coin was called for in this cycle, in order
    phase,         \* position of the running analyze_coin
    resp1,         \* what the primary provider (Coinbase) answered
    resp2,         \* what the secondary provider (CoinGecko) answered
    price,         \* analyze_coin's `price` (None or <<v>>)
    df,            \* analyze_coin's `df`: the history series
    df_prev,       \* analyze_coin's `df_prev`: the rows selected as reference
    prev_price,    \* analyze_coin's `prev_price` (None or <<v>>)
    sma_window,    \* the window passed to rolling() for SMA20
    rsi_period,    \* the period passed to calc_rsi for RSI14
    SMA20,         \* the column df["SMA20"]
    RSI14,         \* the column df["RSI14"]
    message,       \* the lines of `message`, by what they report
    chart_buf,     \* analyze_coin's `chart_buf` (None or <<image>>)
    calls,         \* components invoked by the running analyze_coin, in order
    outcome,       \* how the last analyze_coin ended
    wait_seconds   \* loop_crypto's `wait_seconds`

vars == <<pc, clock, now, i, started, phase, resp1, resp2, price, df,
          df_prev, prev_price, sma_window, rsi_period, SMA20, RSI14, message,
          chart_buf, calls, outcome, wait_seconds>>

\* the arguments analyze_coin passes to the indicators
params == <<sma_window, rsi_period>>

\* what analyze_coin computes for the message
ind == <<SMA20, RSI14, message>>

---------------------------------------------------------------------------
(* Bounds of the model *)

\* longest history series the history provider answers with
MaxLen == 2

\* longest history series the indicators are computed over
MaxIndLen == 4

\* largest price of a point of such a series
MaxIndPrice == 4

\* largest window or period the indicators are computed with
MaxWindow == 3

\* seconds a long cycle takes between reading `now` and going to sleep
LongRun == 3570

\* seconds a cycle takes: none, or a long run
Durations == {0, LongRun}

\* prices a provider can quote
Prices == {0, 97, 98, 102, 103}

\* prices of the points of a history series
HistPrices == {0, 100}

\* distance (seconds) of a history point from "yesterday at this time"
Offsets == {-60, 0, 60}

---------------------------------------------------------------------------
(* Program constants *)

DAY == 86400
HOUR == 3600
MINUTE == 60

\* abs(change_pct) < 3
THRESHOLD == 3

\* replace(minute=0, second=5, microsecond=0)
RUN_SECOND == 5

\* max(..., 60)
MIN_WAIT == 60

\* 6 <= now.hour < 21 or (now.hour == 21 and now.minute <= 30)
WINDOW_FIRST_HOUR == 6
WINDOW_LAST_HOUR == 21
WINDOW_LAST_MINUTE == 30

\* df["price"].rolling(20).mean()
SMA_WINDOW == 20

\* calc_rsi(df["price"], 14)
RSI_PERIOD == 14

\* for coin in ["bitcoin","ethereum","ripple"]
COINS == <<"bitcoin", "ethereum", "ripple">>

---------------------------------------------------------------------------
(* Values *)

\* Python's None; a present value v is <<v>>
None == <<>>

Abs(x) == IF x < 0 THEN -x ELSE x

Max(a, b) == IF a >= b THEN a ELSE b

HMS(h, m, s) == h * HOUR + m * MINUTE + s

\* A provider's answer.  kind is one of
\*   "neterr"   requests.get raised (timeout, connection error)
\*   "notjson"  the body is not JSON
\*   "nofield"  JSON without the price field
\*   "badnum"   the price field does not parse as a float
\*   "price"    the price field parses to `value`
FailKinds == {"neterr", "notjson", "nofield", "badnum"}

Responses ==
    {[kind |-> k, value |-> 0] : k \in FailKinds}
        \cup {[kind |-> "price", value |-> v] : v \in Prices}

NotCalled == [kind |-> "notcalled", value |-> 0]

---------------------------------------------------------------------------
(* get_coinbase_price *)

\* resp.json(), or {} when the body is not JSON
safe_json(resp) ==
    IF resp.kind = "notjson" THEN [kind |-> "nofield", value |-> 0] ELSE resp

\* the first try block: the primary's price, or None when control falls
\* through to the fallback
primary_try(r) ==
    IF r.kind = "neterr" THEN None
    ELSE LET data == safe_json(r) IN
         IF data.kind = "nofield" THEN None
         ELSE IF data.kind = "badnum" THEN None
         ELSE <<data.value>>

\* the second try block: r2[cg_id]["usd"] as a float, or None on any exception
secondary_try(r2) ==
    IF r2.kind = "price" THEN <<r2.value>> ELSE None

\* get_coinbase_price with the fallback requested unconditionally
get_coinbase_price_both(r, r2) ==
    [result |-> IF primary_try(r) # None THEN primary_try(r) ELSE secondary_try(r2),
     requests |-> <<"coinbase", "coingecko">>]

\* the price returned, and the providers requested, in order
get_coinbase_price(r, r2) ==
    IF primary_try(r) # None
    THEN [result |-> primary_try(r), requests |-> <<"coinbase">>]
    ELSE [result |-> secondary_try(r2), requests |-> <<"coinbase", "coingecko">>]

---------------------------------------------------------------------------
(* get_history_coingecko *)

Points == [off : Offsets, price : HistPrices]

\* the series a provider can answer with: at most MaxLen points, in
\* ascending order of time (equal times are possible)
Series ==
    UNION {
        {s \in [1..n -> Points] :
            \A a, b \in 1..n : a < b => s[a].off <= s[b].off}
        : n \in 0..MaxLen}

\* the data frame of a raw series: one row per point, its timestamp an
\* instant `off` seconds from `target`
Frame(s, target) ==
    [k \in 1..Len(s) |-> [timestamp |-> target + s[k].off, price |-> s[k].price]]

\* the frame returned: the converted series, or the empty frame on any exception
get_history_coingecko(ok, s, target) ==
    IF ok THEN Frame(s, target) ELSE <<>>

---------------------------------------------------------------------------
(* analyze_coin: the reference point *)

\* pd.to_datetime(..., unit="ms") gives a column without a time zone;
\* datetime.now(TZ) carries one
HISTORY_TZ == "naive"
NOW_TZ == "aware"

\* (df["timestamp"] - pd.Timestamp(yesterday_same_hour)): pandas refuses to
\* subtract operands of mixed time-zone awareness with a TypeError.  The
\* computed distance is kept as a second outcome, so that the rest of
\* analyze_coin is checked for what it does once a reference is located.
SubtractOutcomes ==
    IF HISTORY_TZ = NOW_TZ THEN {"ok"} ELSE {"TypeError", "ok"}

\* now - datetime.timedelta(days=1), with analyze_coin's `now`: the clock at
\* its call (the time a cycle takes is accounted for when it goes to sleep)
yesterday_same_hour(t) == t - DAY

\* (df["timestamp"] - target).abs()
Distance(frame, target) ==
    [k \in 1..Len(frame) |-> Abs(frame[k].timestamp - target)]

Minimisers(d) == {k \in 1..Len(d) : \A j \in 1..Len(d) : d[k] <= d[j]}

\* .argsort()[:1]: the position lists that can result.  argsort uses numpy's
\* default quicksort, which sorts up to 16 elements by insertion (equal keys
\* keep their order) and leaves the order of equal keys unspecified beyond.
argsort_head(d) ==
    IF Len(d) = 0 THEN {<<>>}
    ELSE IF Len(d) <= 16
         THEN {<<CHOOSE k \in Minimisers(d) : \A j \in Minimisers(d) : k <= j>>}
         ELSE {<<k>> : k \in Minimisers(d)}

\* df.iloc[positions]
iloc(frame, positions) ==
    [j \in 1..Len(positions) |-> frame[positions[j]]]

\* df_prev["price"].values[0] if not df_prev.empty else None
first_price(rows) ==
    IF rows # <<>> THEN <<rows[1].price>> ELSE None

---------------------------------------------------------------------------
(* analyze_coin: the threshold *)

\* the threshold taken as a fraction (0.03) of a change in percent
below_threshold_fraction(p, r) ==
    IF r = 0 THEN FALSE
    ELSE Abs((p - r) * 100) * 100 < THRESHOLD * Abs(r)

\* the threshold test with <= for <
below_threshold_inclusive(p, r) ==
    IF r = 0 THEN FALSE
    ELSE Abs((p - r) * 100) <= THRESHOLD * Abs(r)

\* abs(change_pct) < 3 with change_pct = (price - prev_price) / prev_price * 100.
\* A zero prev_price gives inf or nan (numpy float division), and no
\* comparison with either is true.
below_threshold(p, r) ==
    IF r = 0 THEN FALSE
    ELSE Abs((p - r) * 100) < THRESHOLD * Abs(r)

---------------------------------------------------------------------------
(* analyze_coin: the indicators *)

\* A float: not-a-number, an infinity, or the fraction num / den (den > 0).
\* Fractions are exact; the rounding of floats is not modelled.
NaN == [kind |-> "nan", num |-> 0, den |-> 1]
Inf == [kind |-> "inf", num |-> 0, den |-> 1]
Num(n, d) == IF d < 0 THEN [kind |-> "num", num |-> -n, den |-> -d]
             ELSE [kind |-> "num", num |-> n, den |-> d]

\* pd.notna
notna(x) == x.kind # "nan"

\* x + y
fadd(x, y) ==
    IF x.kind = "nan" \/ y.kind = "nan" THEN NaN
    ELSE IF x.kind = "inf" \/ y.kind = "inf" THEN Inf
    ELSE Num(x.num * y.den + y.num * x.den, x.den * y.den)

\* x - y
fsub(x, y) ==
    IF x.kind = "nan" \/ y.kind = "nan" THEN NaN
    ELSE IF x.kind = "inf" \/ y.kind = "inf" THEN Inf
    ELSE Num(x.num * y.den - y.num * x.den, x.den * y.den)

\* x / y as numpy divides floats: 0/0 is nan, x/0 is an infinity, x/inf is 0
fdiv(x, y) ==
    IF x.kind = "nan" \/ y.kind = "nan" THEN NaN
    ELSE IF x.kind = "inf" THEN (IF y.kind = "inf" THEN NaN ELSE Inf)
    ELSE IF y.kind = "inf" THEN Num(0, 1)
    ELSE IF y.num = 0 THEN (IF x.num = 0 THEN NaN ELSE Inf)
    ELSE Num(x.num * y.den, x.den * y.num)

\* df["price"]
price_column(frame) ==
    [k \in 1..Len(frame) |-> Num(frame[k].price, 1)]

\* series.diff()
diff(col) ==
    [k \in 1..Len(col) |-> IF k = 1 THEN NaN ELSE fsub(col[k], col[k - 1])]

\* delta.clip(lower=0)
clip_lower0(col) ==
    [k \in 1..Len(col) |->
        IF col[k].kind = "num" /\ col[k].num < 0 THEN Num(0, 1) ELSE col[k]]

\* delta.clip(upper=0)
clip_upper0(col) ==
    [k \in 1..Len(col) |->
        IF col[k].kind = "num" /\ col[k].num > 0 THEN Num(0, 1) ELSE col[k]]

\* -col
negated(col) ==
    [k \in 1..Len(col) |-> fsub(Num(0, 1), col[k])]

\* col[a] + ... + col[b]
RECURSIVE window_sum(_, _, _)
window_sum(col, a, b) ==
    IF a > b THEN Num(0, 1) ELSE fadd(window_sum(col, a, b - 1), col[b])

\* rolling(w, min_periods=1).mean(): the mean of the values there are
rolling_mean_partial(col, w) ==
    [k \in 1..Len(col) |->
        LET a == IF k >= w THEN k - w + 1 ELSE 1 IN
        IF \A j \in a..k : col[j].kind = "num"
        THEN fdiv(window_sum(col, a, k), Num(k - a + 1, 1))
        ELSE NaN]

\* col.rolling(w).mean(): the mean of the w values ending at k, nan when
\* there are fewer than w of them or one of them is nan
rolling_mean(col, w) ==
    [k \in 1..Len(col) |->
        IF k >= w /\ \A j \in (k - w + 1)..k : col[j].kind = "num"
        THEN fdiv(window_sum(col, k - w + 1, k), Num(w, 1))
        ELSE NaN]

calc_rsi(series, period) ==
    LET delta == diff(series)
        up == clip_lower0(delta)
        down == negated(clip_upper0(delta))
        roll_up == rolling_mean(up, period)
        roll_down == rolling_mean(down, period)
        rs == [k \in 1..Len(series) |-> fdiv(roll_up[k], roll_down[k])]
    IN  [k \in 1..Len(series) |->
            fsub(Num(100, 1), fdiv(Num(100, 1), fadd(Num(1, 1), rs[k])))]

\* col.iloc[-1]
iloc_last(col) == col[Len(col)]

\* price > sma_val
greater(p, x) == x.kind = "num" /\ p * x.den > x.num

\* what get_news_for_symbol returns: a text (a digest, or the notice that
\* there is none), or the empty string when a provider lists no article
NewsTexts == {"", "news"}

\* lines, and "\n".join([l for l in lines if l]): the lines of the message
message_lines(p, sma_val, rsi_val, news) ==
    LET lines == <<
            "title",
            "time",
            "price",
            IF notna(sma_val)
                THEN (IF greater(p, sma_val) THEN "sma_above" ELSE "sma_below")
                ELSE "",
            IF notna(rsi_val) THEN "rsi" ELSE "",
            "change",
            "",
            news,
            "",
            "disclaimer" >>
        NonEmpty(l) == l # ""
    IN  SelectSeq(lines, NonEmpty)

---------------------------------------------------------------------------
(* loop_crypto: the schedule *)

\* the window test with the whole of the last hour let in
in_window_whole_hour(t) ==
    LET hour == t \div HOUR
    IN  WINDOW_FIRST_HOUR <= hour /\ hour <= WINDOW_LAST_HOUR

\* 6 <= now.hour < 21 or (now.hour == 21 and now.minute <= 30)
in_window(t) ==
    LET hour == t \div HOUR
        minute == (t % HOUR) \div MINUTE
    IN  \/ (WINDOW_FIRST_HOUR <= hour /\ hour < WINDOW_LAST_HOUR)
        \/ (hour = WINDOW_LAST_HOUR /\ minute <= WINDOW_LAST_MINUTE)

\* next_run without the hour added: now.replace(minute=0, second=5)
next_run_same_hour(t) == (t \div HOUR) * HOUR + RUN_SECOND

\* (now + timedelta(hours=1)).replace(minute=0, second=5, microsecond=0),
\* in seconds since the midnight before `now`
next_run(t) == ((t \div HOUR) + 1) * HOUR + RUN_SECOND

\* the wait without its floor
wait_for_nofloor(t) == next_run(t) - t

\* max((next_run - now).total_seconds(), 60)
wait_for(t) == Max(next_run(t) - t, MIN_WAIT)

---------------------------------------------------------------------------
(* Initial state: the process has started, loop_crypto is about to run *)

StartTimes ==
    { HMS(5, 59, 59), HMS(6, 0, 0), HMS(12, 59, 30),
      HMS(21, 30, 59), HMS(21, 31, 0), HMS(23, 59, 59) }

Init ==
    /\ pc = "startup"
    /\ clock \in StartTimes
    /\ now = 0
    /\ i = 0
    /\ started = <<>>
    /\ phase = "Idle"
    /\ resp1 = NotCalled
    /\ resp2 = NotCalled
    /\ price = None
    /\ df = <<>>
    /\ df_prev = <<>>
    /\ prev_price = None
    /\ sma_window = SMA_WINDOW
    /\ rsi_period = RSI_PERIOD
    /\ SMA20 = <<>>
    /\ RSI14 = <<>>
    /\ message = <<>>
    /\ chart_buf = None
    /\ calls = <<>>
    /\ outcome = "none"
    /\ wait_seconds = 0

locals == <<phase, resp1, resp2, price, df, df_prev, prev_price, ind,
            chart_buf, calls, outcome>>

---------------------------------------------------------------------------
(* loop_crypto *)

\* the startup message: sent or not, the exception is swallowed
Startup ==
    /\ pc = "startup"
    /\ \E sent \in BOOLEAN : pc' = "loop"
    /\ UNCHANGED <<clock, now, i, started, wait_seconds, params>>
    /\ UNCHANGED locals

\* top of the while loop: read the clock, test the active window
CycleStart ==
    /\ pc = "loop"
    /\ now' = clock
    /\ i' = 0
    /\ started' = <<>>
    /\ pc' = IF in_window(clock) THEN "for" ELSE "schedule"
    /\ UNCHANGED <<clock, wait_seconds, params>>
    /\ UNCHANGED locals

\* no analyze_coin is running: its locals do not exist
NoFrame(ph) ==
    /\ phase' = ph
    /\ resp1' = NotCalled
    /\ resp2' = NotCalled
    /\ price' = None
    /\ df' = <<>>
    /\ df_prev' = <<>>
    /\ prev_price' = None
    /\ SMA20' = <<>>
    /\ RSI14' = <<>>
    /\ message' = <<>>
    /\ chart_buf' = None
    /\ calls' = <<>>
    /\ outcome' = "none"

\* the for loop taking its coins from the end of the list
next_coin_reversed(k) == COINS[Len(COINS) - k]

\* the coin the for loop takes after k coins
next_coin(k) == COINS[k + 1]

\* the for loop: call analyze_coin for the next coin, or leave the loop
ForNext ==
    /\ pc = "for"
    /\ IF i < Len(COINS)
       THEN /\ i' = i + 1
            /\ started' = Append(started, next_coin(i))
            /\ pc' = "analyze"
            /\ NoFrame("FetchingPrice")
       ELSE /\ pc' = "schedule"
            /\ NoFrame("Idle")
            /\ UNCHANGED <<i, started>>
    /\ UNCHANGED <<clock, now, wait_seconds, params>>

\* next_run and wait_seconds
Schedule ==
    /\ pc = "schedule"
    /\ wait_seconds' = wait_for(now)
    /\ pc' = "sleep"
    /\ UNCHANGED <<clock, now, i, started, params>>
    /\ UNCHANGED locals

\* await asyncio.sleep(wait_seconds): the cycle took d seconds up to here
Sleep ==
    /\ pc = "sleep"
    /\ \E d \in Durations : clock' = (now + d + wait_seconds) % DAY
    /\ pc' = "loop"
    /\ UNCHANGED <<now, i, started, wait_seconds, params>>
    /\ UNCHANGED locals

---------------------------------------------------------------------------
(* analyze_coin *)

\* `return` (or the end of the function) with the given outcome: control is
\* back in the for loop
Return(o) ==
    /\ phase' = "Done"
    /\ outcome' = o
    /\ pc' = "for"

\* an exception leaves analyze_coin; neither the for loop nor the while loop
\* handles it, so loop_crypto ends
Raise(e) ==
    /\ phase' = "Raised"
    /\ outcome' = e
    /\ pc' = "dead"

\* price = get_coinbase_price(coin_id); if price is None: return
FetchPrice ==
    /\ pc = "analyze" /\ phase = "FetchingPrice"
    /\ \E r \in Responses, r2 \in Responses :
         LET got == get_coinbase_price(r, r2) IN
         /\ resp1' = r
         /\ resp2' = IF Len(got.requests) = 2 THEN r2 ELSE NotCalled
         /\ calls' = calls \o got.requests
         /\ price' = got.result
         /\ IF got.result = None
            THEN Return("PriceUnavailable")
            ELSE phase' = "FetchingHistory" /\ UNCHANGED <<pc, outcome>>
    /\ UNCHANGED <<clock, now, i, started, df, df_prev, prev_price, chart_buf,
                   wait_seconds, params, ind>>

\* df = get_history_coingecko(coin_id, days=2); if df.empty: return
FetchHistory ==
    /\ pc = "analyze" /\ phase = "FetchingHistory"
    /\ \E ok \in BOOLEAN, s \in Series :
         /\ df' = get_history_coingecko(ok, s, yesterday_same_hour(clock))
         /\ IF df' = <<>>
            THEN Return("HistoryUnavailable")
            ELSE phase' = "LocatingReference" /\ UNCHANGED <<pc, outcome>>
    /\ calls' = Append(calls, "history")
    /\ resp1' = NotCalled
    /\ resp2' = NotCalled
    /\ UNCHANGED <<clock, now, i, started, price, df_prev, prev_price, chart_buf,
                   wait_seconds, params, ind>>

\* yesterday_same_hour, df_prev, prev_price; if prev_price is None: return
LocateReference ==
    /\ pc = "analyze" /\ phase = "LocatingReference"
    /\ \E o \in SubtractOutcomes :
         IF o = "TypeError"
         THEN Raise("TypeError") /\ UNCHANGED <<df_prev, prev_price>>
         ELSE \E positions \in argsort_head(Distance(df, yesterday_same_hour(clock))) :
                /\ df_prev' = iloc(df, positions)
                /\ prev_price' = first_price(df_prev')
                /\ IF prev_price' = None
                   THEN Return("ReferenceNotFound")
                   ELSE phase' = "Evaluating" /\ UNCHANGED <<pc, outcome>>
    /\ calls' = Append(calls, "locate")
    /\ UNCHANGED <<clock, now, i, started, resp1, resp2, price, df, chart_buf,
                   wait_seconds, params, ind>>

\* change_pct; if abs(change_pct) < 3: return
Evaluate ==
    /\ pc = "analyze" /\ phase = "Evaluating"
    /\ calls' = Append(calls, "evaluate")
    /\ IF below_threshold(price[1], prev_price[1])
       THEN Return("BelowThreshold")
       ELSE phase' = "Composing" /\ UNCHANGED <<pc, outcome>>
    /\ UNCHANGED <<clock, now, i, started, resp1, resp2, price, df, df_prev,
                   prev_price, chart_buf, wait_seconds, params, ind>>

\* indicators, news and the message
Compose ==
    /\ pc = "analyze" /\ phase = "Composing"
    /\ SMA20' = rolling_mean(price_column(df), sma_window)
    /\ RSI14' = calc_rsi(price_column(df), rsi_period)
    /\ \E news \in NewsTexts :
         message' = message_lines(price[1], iloc_last(SMA20'), iloc_last(RSI14'),
                                  news)
    /\ calls' = Append(calls, "news")
    /\ phase' = "SendingText"
    /\ UNCHANGED <<pc, outcome>>
    /\ UNCHANGED <<clock, now, i, started, resp1, resp2, price, df, df_prev,
                   prev_price, chart_buf, wait_seconds, params>>

\* except Exception as e: print("Error enviando ..."), left without a handler
send_except_missing(call) ==
    /\ calls' = Append(calls, call)
    /\ Raise("DeliveryError")

\* the try block's handler, entered when `call` raised:
\* except Exception as e: print("Error enviando ...")
send_except(call) ==
    /\ calls' = calls \o <<call, "print_error">>
    /\ Return("DeliveryFailure")

\* the end of the try block after `call`: print("... enviado ...")
send_done(call) ==
    /\ calls' = calls \o <<call, "print_sent">>
    /\ Return("Sent")

\* SendText whose failure does not end the delivery
SendText_unguarded ==
    /\ pc = "analyze" /\ phase = "SendingText"
    /\ \E ok \in BOOLEAN :
         /\ calls' = IF ok THEN Append(calls, "send_message")
                     ELSE calls \o <<"send_message", "print_error">>
         /\ phase' = "Rendering"
         /\ UNCHANGED <<pc, outcome>>
    /\ UNCHANGED <<clock, now, i, started, resp1, resp2, price, df, df_prev,
                   prev_price, chart_buf, wait_seconds, params, ind>>

\* bot.send_message inside the try block
SendText ==
    /\ pc = "analyze" /\ phase = "SendingText"
    /\ \E ok \in BOOLEAN :
         IF ok
         THEN /\ calls' = Append(calls, "send_message")
              /\ phase' = "Rendering"
              /\ UNCHANGED <<pc, outcome>>
         ELSE send_except("send_message")
    /\ UNCHANGED <<clock, now, i, started, resp1, resp2, price, df, df_prev,
                   prev_price, chart_buf, wait_seconds, params, ind>>

\* the chart test left out
chart_unchecked(buf) == TRUE

\* if chart_buf:
chart_truthy(buf) == buf # None

\* chart_buf = create_chart_image(df, label): the image, or None on any
\* exception while drawing; if chart_buf: ...
RenderChart ==
    /\ pc = "analyze" /\ phase = "Rendering"
    /\ \E rendered \in BOOLEAN :
         /\ chart_buf' = IF rendered THEN <<"png">> ELSE None
         /\ IF chart_truthy(chart_buf')
            THEN /\ calls' = Append(calls, "create_chart_image")
                 /\ phase' = "SendingPhoto"
                 /\ UNCHANGED <<pc, outcome>>
            ELSE send_done("create_chart_image")
    /\ UNCHANGED <<clock, now, i, started, resp1, resp2, price, df, df_prev,
                   prev_price, wait_seconds, params, ind>>

\* bot.send_photo inside the try block
SendPhoto ==
    /\ pc = "analyze" /\ phase = "SendingPhoto"
    /\ \E ok \in BOOLEAN :
         IF ok THEN send_done("send_photo") ELSE send_except("send_photo")
    /\ UNCHANGED <<clock, now, i, started, resp1, resp2, price, df, df_prev,
                   prev_price, chart_buf, wait_seconds, params, ind>>

analyze_coin ==
    \/ FetchPrice
    \/ FetchHistory
    \/ LocateReference
    \/ Evaluate
    \/ Compose
    \/ SendText
    \/ RenderChart
    \/ SendPhoto

loop_crypto ==
    \/ Startup
    \/ CycleStart
    \/ ForNext
    \/ Schedule
    \/ Sleep

Next == loop_crypto \/ analyze_coin

Spec == Init /\ [][Next]_vars

---------------------------------------------------------------------------
(* The indicators on longer histories *)

\* the price series the indicators are computed over
IndSeries ==
    UNION {[1..n -> 1..MaxIndPrice] : n \in 1..MaxIndLen}

\* the frame of an hourly series that starts "yesterday at this time"
IndFrame(s, target) ==
    [k \in 1..Len(s) |-> [timestamp |-> target + (k - 1) * HOUR, price |-> s[k]]]

\* analyze_coin is about to compose the message for bitcoin: the change of
\* its price against the located reference is not below the threshold.
\* rolling() and calc_rsi take any window and period.
IndInit ==
    /\ pc = "analyze"
    /\ clock = HMS(12, 0, 5)
    /\ now = clock
    /\ i = 1
    /\ started = <<"bitcoin">>
    /\ phase = "Composing"
    /\ resp1 = NotCalled
    /\ resp2 = NotCalled
    /\ price = <<103>>
    /\ \E s \in IndSeries : df = IndFrame(s, yesterday_same_hour(clock))
    /\ \E positions \in argsort_head(Distance(df, yesterday_same_hour(clock))) :
         df_prev = iloc(df, positions)
    /\ prev_price = first_price(df_prev)
    /\ ~below_threshold(price[1], prev_price[1])
    /\ sma_window \in 1..MaxWindow
    /\ rsi_period \in 1..MaxWindow
    /\ SMA20 = <<>>
    /\ RSI14 = <<>>
    /\ message = <<>>
    /\ chart_buf = None
    /\ calls = <<"coinbase", "history", "locate", "evaluate">>
    /\ outcome = "none"
    /\ wait_seconds = 0

IndicatorSpec == IndInit /\ [][Compose]_vars

---------------------------------------------------------------------------
(* Properties *)

Called(c) == \E k \in 1..Len(calls) : calls[k] = c

\* a delivery collaborator was called, or a chart rendered, by the analysis
Delivered ==
    Called("send_message") \/ Called("send_photo") \/ Called("create_chart_image")

\* the analysis went on to compose and deliver
NotifyPath ==
    \/ phase \in {"Composing", "SendingText", "Rendering", "SendingPhoto"}
    \/ phase = "Done" /\ outcome \in {"Sent", "DeliveryFailure"}

\* the time of day lies between 06:00:00 and 21:30:59
ActiveWindow(t) == HMS(6, 0, 0) <= t /\ t <= HMS(21, 30, 59)

\* C1: in a cycle of the active window analyze_coin is started for bitcoin,
\* ethereum and ripple, however the earlier analyses ended: once the cycle's
\* analyses are over (the loop is scheduling, sleeping, or has ended), all
\* three were started.
C1_EveryAssetStarted ==
    (pc \in {"schedule", "sleep", "dead"} /\ ActiveWindow(now))
        => started = COINS

PriceUnavailableCase == Called("coinbase") /\ price = None

HistoryEmptyCase == Called("history") /\ df = <<>>

NoReferenceCase == Called("locate") /\ phase # "Raised" /\ prev_price = None

BelowThresholdCase ==
    /\ Called("evaluate")
    /\ prev_price[1] # 0
    /\ Abs(price[1] - prev_price[1]) * 100 < 3 * Abs(prev_price[1])

\* C2: when the price is unavailable, the history is empty, no reference
\* point is found or the change is below 3 percent, the analysis has ended
\* as a skip, with no message sent, no photo sent and no chart rendered; with
\* an empty history the percentage change was not evaluated.
C2_SkipDeliversNothing ==
    (PriceUnavailableCase \/ HistoryEmptyCase \/ NoReferenceCase \/ BelowThresholdCase)
        => /\ pc = "for" /\ phase = "Done"
           /\ outcome \in {"PriceUnavailable", "HistoryUnavailable",
                           "ReferenceNotFound", "BelowThreshold"}
           /\ ~Delivered
           /\ (HistoryEmptyCase => ~Called("evaluate"))

\* a change of 2 percent was evaluated and the analysis ended as a skip
C2_Witness ==
    /\ BelowThresholdCase
    /\ price = <<98>> /\ prev_price = <<100>>
    /\ phase = "Done" /\ outcome = "BelowThreshold"
    /\ ~Delivered

\* C3: once the change is evaluated against a positive reference price, the
\* analysis is on the compose-and-deliver path if and only if the absolute
\* change is at least 3 percent of the reference (3 percent exactly included,
\* up or down); otherwise it ended as a below-threshold skip.
C3_NotifyIffAtLeastThreshold ==
    (Called("evaluate") /\ prev_price[1] > 0)
        => /\ NotifyPath <=> (Abs(price[1] - prev_price[1]) * 100 >= 3 * prev_price[1])
           /\ ~NotifyPath => (phase = "Done" /\ outcome = "BelowThreshold")

\* a change of exactly -3 percent goes on to compose
C3_Witness ==
    /\ Called("evaluate")
    /\ price = <<97>> /\ prev_price = <<100>>
    /\ phase = "Composing"

\* C4: a located reference price <= 0 makes the analysis a skip: the change
\* is not evaluated with it, nothing is delivered, and the loop goes on
\* (stated for a positive current price).
C4_InvalidReferenceSkips ==
    (prev_price # None /\ prev_price[1] <= 0 /\ price[1] > 0)
        => /\ ~Called("evaluate")
           /\ ~Delivered
           /\ pc # "dead"

\* C5: after get_coinbase_price, the primary was requested first; the
\* secondary was requested if and only if the primary gave no parsed price;
\* the result is the first parsed price in that order, and None exactly when
\* neither gave one.
C5_FallbackOrder ==
    resp1 # NotCalled
        => /\ calls[1] = "coinbase"
           /\ Called("coingecko") <=> resp1.kind # "price"
           /\ Called("coingecko") => (calls = <<"coinbase", "coingecko">> /\ resp2 # NotCalled)
           /\ ~Called("coingecko") => (calls = <<"coinbase">> /\ resp2 = NotCalled)
           /\ price = (IF resp1.kind = "price" THEN <<resp1.value>>
                       ELSE IF resp2.kind = "price" THEN <<resp2.value>>
                       ELSE None)
           /\ price = None <=> (resp1.kind # "price" /\ resp2.kind # "price")

\* the primary's price did not parse and the secondary's price is returned
C5_Witness ==
    /\ resp1.kind = "badnum"
    /\ resp2 = [kind |-> "price", value |-> 103]
    /\ calls = <<"coinbase", "coingecko">>
    /\ price = <<103>>

\* C6: every price get_coinbase_price returns is positive.
C6_PricePositive ==
    price # None => price[1] > 0

\* the point of the frame closest to the target, the earliest of them
EarliestClosest(frame, target) ==
    CHOOSE k \in 1..Len(frame) :
        /\ \A j \in 1..Len(frame) :
             Abs(frame[k].timestamp - target) <= Abs(frame[j].timestamp - target)
        /\ \A j \in 1..(k - 1) :
             Abs(frame[j].timestamp - target) > Abs(frame[k].timestamp - target)

\* C7: once the reference is looked up in a non-empty history, the selected
\* row is the point closest in time to now minus 24 hours, the earliest of
\* the closest; no row is selected only when the history is empty.
C7_ReferenceIsEarliestClosest ==
    Called("locate")
        => /\ df # <<>> => df_prev = <<df[EarliestClosest(df, clock - 86400)]>>
           /\ df_prev = <<>> => df = <<>>

\* C8: no outcome of an analysis ends the scheduling loop.
C8_LoopNeverEnds ==
    pc # "dead"

\* C9: the wait of a cycle is the time from the cycle start to five seconds
\* past the next hour, raised to 60 seconds when shorter; it lies between 60
\* and 3605 seconds.
C9_WaitToNextHour ==
    pc = "sleep"
        => LET toNext == (3600 - (now % 3600)) + 5
           IN  /\ wait_seconds = (IF toNext < 60 THEN 60 ELSE toNext)
               /\ 60 <= wait_seconds /\ wait_seconds <= 3605

\* a cycle started in the last minute of an hour waits the floor
C9_Witness ==
    /\ pc = "sleep"
    /\ now % 3600 > 3545
    /\ wait_seconds = 60

\* C10: analyses run only in cycles started between 06:00 and 21:30, and in
\* every such cycle; a cycle started outside starts no analysis and calls no
\* provider or delivery collaborator, and still computes its wait.
C10_WindowGate ==
    /\ pc \in {"for", "analyze", "dead"} => ActiveWindow(now)
    /\ pc \in {"schedule", "sleep"}
         => /\ ActiveWindow(now) <=> started # <<>>
            /\ ~ActiveWindow(now) => (phase = "Idle" /\ calls = <<>>)
    /\ pc = "sleep" => wait_seconds >= 60

\* a cycle started at 21:31:00 goes to sleep without an analysis
C10_Witness ==
    /\ pc = "sleep"
    /\ now = HMS(21, 31, 0)
    /\ started = <<>> /\ calls = <<>>
    /\ wait_seconds = 1745

\* C11: when the chart could not be rendered, the text message of the
\* analysis was sent all the same, no photo is sent, and the analysis has
\* ended normally.
C11_ChartFailureKeepsText ==
    (Called("create_chart_image") /\ chart_buf = None)
        => /\ Called("send_message")
           /\ ~Called("send_photo")
           /\ pc = "for" /\ phase = "Done" /\ outcome = "Sent"

\* the text was sent, the chart failed, the analysis ended as sent
C11_Witness ==
    /\ Called("create_chart_image") /\ chart_buf = None
    /\ Called("send_message") /\ ~Called("send_photo")
    /\ outcome = "Sent"

\* C12: once a delivery call was made, whatever its result, no exception
\* has left analyze_coin and the loop is alive; a failed delivery has ended
\* the analysis normally, with control back in the for loop at the same coin
\* count as after a successful one.
C12_DeliveryFailureContained ==
    /\ (Called("send_message") \/ Called("send_photo"))
         => (pc \in {"analyze", "for"} /\ phase # "Raised")
    /\ outcome \in {"Sent", "DeliveryFailure"}
         => (pc = "for" /\ phase = "Done" /\ i = Len(started))

\* the photo could not be sent and the for loop goes on with the next coin
C12_Witness ==
    /\ outcome = "DeliveryFailure"
    /\ Called("send_photo")
    /\ pc = "for" /\ i = 1

\* C13: the coins analysed in a cycle are a prefix of bitcoin, ethereum,
\* ripple in that order (so each at most once); one analysis runs at a time,
\* and the for loop takes the next coin only when the previous analysis has
\* ended.
C13_FixedSequentialOrder ==
    /\ started = SubSeq(COINS, 1, i)
    /\ pc = "analyze" => (i >= 1 /\ phase \notin {"Idle", "Done", "Raised"})
    /\ (pc = "for" /\ i >= 1) => phase = "Done"

\* the third coin's analysis has started after the first two
C13_Witness ==
    /\ pc = "analyze" /\ phase = "FetchingPrice"
    /\ started = <<"bitcoin", "ethereum", "ripple">>

\* the number of calls of a component by the running analysis
Count(c) == Cardinality({k \in 1..Len(calls) : calls[k] = c})

Pos(c) == CHOOSE k \in 1..Len(calls) : calls[k] = c

\* bot.send_message raised
TextFailed ==
    \E k \in 1..(Len(calls) - 1) :
        calls[k] = "send_message" /\ calls[k + 1] = "print_error"

\* the seconds from the start of the last cycle to the wake-up
Elapsed == (clock - now) % 86400

\* C16: when the loop wakes up for its next cycle, the time is at least five
\* seconds past the top of the hour that followed the start of the last
\* cycle, so the next cycle starts in a later clock hour.
C16_NextCycleInLaterHour ==
    (pc = "loop" /\ wait_seconds > 0)
        => /\ Elapsed >= (3600 - (now % 3600)) + 5
           /\ (now + Elapsed) \div 3600 > now \div 3600

\* a cycle started at 12:59:30 that took no time wakes the loop at 13:00:30
C16_Witness ==
    /\ pc = "loop"
    /\ now = HMS(12, 59, 30)
    /\ wait_seconds = 60
    /\ clock = HMS(13, 0, 30)

\* C17: an analysis sends at most one text and one photo; the chart is
\* rendered only after the text was sent without error, the photo is sent
\* only after the chart was rendered; after a failed text neither happens.
C17_DeliveryOrder ==
    /\ Count("send_message") <= 1
    /\ Count("send_photo") <= 1
    /\ Called("create_chart_image")
         => (Called("send_message")
             /\ Pos("send_message") < Pos("create_chart_image")
             /\ ~TextFailed)
    /\ Called("send_photo")
         => (Called("create_chart_image")
             /\ Pos("create_chart_image") < Pos("send_photo")
             /\ chart_buf # None)
    /\ TextFailed => (~Called("create_chart_image") /\ ~Called("send_photo"))

\* text, chart and photo in that order, all successful
C17_Witness ==
    /\ Len(calls) >= 4
    /\ SubSeq(calls, Len(calls) - 3, Len(calls))
         = <<"send_message", "create_chart_image", "send_photo", "print_sent">>
    /\ outcome = "Sent"

---------------------------------------------------------------------------
(* The indicators *)

\* the message has been composed from the indicators of the frame
Composed == phase = "SendingText" /\ Len(SMA20) = Len(df) /\ Len(RSI14) = Len(df)

\* the rolling mean of the downward moves over the period
MeanDown == rolling_mean(negated(clip_upper0(diff(price_column(df)))), rsi_period)

\* the rolling mean of the upward moves over the period
MeanUp == rolling_mean(clip_lower0(diff(price_column(df))), rsi_period)

\* x is the number n
IsNumber(x, n) == x.kind = "num" /\ x.num = n * x.den

\* x is a number between lo and hi
Between(x, lo, hi) == x.kind = "num" /\ lo * x.den <= x.num /\ x.num <= hi * x.den

\* C14: wherever the rolling mean of the downward moves is defined and is 0,
\* the RSI is 100, a flat window included; the RSI is undefined only where
\* the rolling means are undefined for lack of history (the index is below
\* period + 1); every defined RSI lies in [0, 100].
C14_RsiZeroLossConvention ==
    Composed =>
        \A k \in 1..Len(df) :
            /\ IsNumber(MeanDown[k], 0) => IsNumber(RSI14[k], 100)
            /\ ~notna(RSI14[k]) => (k < rsi_period + 1 /\ ~notna(MeanDown[k])
                                    /\ ~notna(MeanUp[k]))
            /\ notna(RSI14[k]) => Between(RSI14[k], 0, 100)

\* frame[a].price + ... + frame[b].price
RECURSIVE PriceSum(_, _, _)
PriceSum(frame, a, b) ==
    IF a > b THEN 0 ELSE PriceSum(frame, a, b - 1) + frame[b].price

\* the message has the line that compares the price with the SMA
HasSmaLine == \E j \in 1..Len(message) : message[j] \in {"sma_above", "sma_below"}

\* C15: the SMA series has one value per price; the value at an index with
\* fewer than `window` prices up to it is undefined, any other is the mean of
\* the `window` prices ending there; the message has the SMA line exactly
\* when the latest SMA value is defined.
C15_SmaAligned ==
    Composed =>
        /\ Len(SMA20) = Len(df)
        /\ \A k \in 1..Len(df) :
            IF k < sma_window
            THEN ~notna(SMA20[k])
            ELSE /\ SMA20[k].kind = "num"
                 /\ SMA20[k].num * sma_window
                      = SMA20[k].den * PriceSum(df, k - sma_window + 1, k)
        /\ HasSmaLine <=> notna(SMA20[Len(df)])

\* window 3 over the prices 1, 2, 3, 4 gives undefined, undefined, 2, 3, and
\* the message has the SMA line
C15_Witness ==
    /\ Composed
    /\ sma_window = 3
    /\ Len(df) = 4
    /\ \A k \in 1..4 : df[k].price = k
    /\ ~notna(SMA20[1]) /\ ~notna(SMA20[2])
    /\ IsNumber(SMA20[3], 2) /\ IsNumber(SMA20[4], 3)
    /\ HasSmaLine

====
